---- MODULE Spec2Model ----
(***************************************************************************)
(* Model of mywayback: the orchestrator of src/main.go (page count, the    *)
(* fetcher pool, the processor pool, the deduplicating printer and the     *)
(* shutdown ordering) and the TTY-aware progress bar PBar.                 *)
(*                                                                         *)
(* Text is modelled as a sequence of one-character strings, so that        *)
(* trimming, integer parsing and URL splitting are computed, not assumed.  *)
(* A critical section of PBar (everything between mu.Lock and mu.Unlock)   *)
(* is one atomic step; every channel operation, atomic counter operation   *)
(* and write to a stream is a step of its own.                             *)
(***************************************************************************)
EXTENDS Integers, Sequences, FiniteSets, TLC

(***************************************************************************)
(* Bounds of the model.                                                    *)
(***************************************************************************)
\* largest page count the index reports in the model
MaxPages == 2
\* capacity of the record queue and of the results queue in the model
\* (make(chan string, 2000) in the program)
QueueCap == 1

(***************************************************************************)
(* Program constants.                                                      *)
(***************************************************************************)
maxRetries == 3

(***************************************************************************)
(* Text helpers.                                                           *)
(***************************************************************************)
Digits == <<"0", "1", "2", "3", "4", "5", "6", "7", "8", "9">>

IsDigit(c) == \E i \in 1..10 : Digits[i] = c

DigitVal(c) == (CHOOSE i \in 1..10 : Digits[i] = c) - 1

IsSpace(c) == c \in {" ", "\t", "\r"}

RECURSIVE TrimLeft(_)
TrimLeft(s) ==
    IF s # <<>> /\ IsSpace(Head(s)) THEN TrimLeft(Tail(s)) ELSE s

RECURSIVE TrimRight(_)
TrimRight(s) ==
    IF s # <<>> /\ IsSpace(s[Len(s)]) THEN TrimRight(SubSeq(s, 1, Len(s) - 1)) ELSE s

\* strings.TrimSpace
TrimSpace(s) == TrimRight(TrimLeft(s))

\* index of the first occurrence of character c in s, 0 when absent
RECURSIVE IndexFrom(_, _, _)
IndexFrom(s, c, i) ==
    IF i > Len(s) THEN 0
    ELSE IF s[i] = c THEN i ELSE IndexFrom(s, c, i + 1)

Index(s, c) == IndexFrom(s, c, 1)

HasPrefix(s, p) == Len(s) >= Len(p) /\ SubSeq(s, 1, Len(p)) = p

\* strings.TrimPrefix(s, p)
TrimPrefix(s, p) == IF HasPrefix(s, p) THEN SubSeq(s, Len(p) + 1, Len(s)) ELSE s

\* strings.Contains(s, c) for a one-character c
Contains(s, c) == Index(s, c) # 0

Http == <<"h", "t", "t", "p", ":", "/", "/">>

Https == <<"h", "t", "t", "p", "s", ":", "/", "/">>

\* normalizeURL, lines 293-301
AddStar(u) == IF Contains(u, "*") THEN u ELSE Append(u, "*")

normalizeURL(u) == AddStar(TrimPrefix(TrimPrefix(TrimSpace(u), Http), Https))

\* decimal value of a sequence of digits
RECURSIVE DigitsVal(_, _)
DigitsVal(s, acc) ==
    IF s = <<>> THEN acc ELSE DigitsVal(Tail(s), acc * 10 + DigitVal(Head(s)))

\* strconv.Atoi: [ok |-> parsed without error, n |-> the value]
Atoi(s) ==
    LET body == IF s # <<>> /\ Head(s) \in {"+", "-"} THEN Tail(s) ELSE s
        neg  == s # <<>> /\ Head(s) = "-"
    IN  IF body = <<>> \/ \E i \in 1..Len(body) : ~IsDigit(body[i])
        THEN [ok |-> FALSE, n |-> 0]
        ELSE [ok |-> TRUE, n |-> IF neg THEN 0 - DigitsVal(body, 0) ELSE DigitsVal(body, 0)]

\* a parse that takes a blank count for an unparsable one
ParsePagesBlankIsOne(numStr) ==
    IF numStr # <<>> /\ Atoi(numStr).ok THEN Atoi(numStr).n ELSE 1

\* main's handling of the page-count line: "" is 0 pages, an unparsable
\* count defaults to 1 page
ParsePages(numStr) ==
    IF numStr = <<>> THEN 0
    ELSE IF Atoi(numStr).ok THEN Atoi(numStr).n ELSE 1

(***************************************************************************)
(* net/url as far as the record processor uses it.                         *)
(***************************************************************************)
Lowers == <<"a","b","c","d","e","f","g","h","i","j","k","l","m",
            "n","o","p","q","r","s","t","u","v","w","x","y","z">>

Uppers == <<"A","B","C","D","E","F","G","H","I","J","K","L","M",
            "N","O","P","Q","R","S","T","U","V","W","X","Y","Z">>

IsLower(c) == \E i \in 1..26 : Lowers[i] = c

IsUpper(c) == \E i \in 1..26 : Uppers[i] = c

IsLetter(c) == IsLower(c) \/ IsUpper(c)

ToLowerChar(c) == IF IsUpper(c) THEN Lowers[CHOOSE i \in 1..26 : Uppers[i] = c] ELSE c

ToLower(s) == [i \in 1..Len(s) |-> ToLowerChar(s[i])]

\* the text before and after position i; i = 0 stands for "not found"
Before(s, i) == IF i = 0 THEN s ELSE SubSeq(s, 1, i - 1)

After(s, i) == IF i = 0 THEN <<>> ELSE SubSeq(s, i + 1, Len(s))

\* strings.Cut(s, c): the text before and after the first c
CutBefore(s, c) == Before(s, Index(s, c))

CutAfter(s, c) == After(s, Index(s, c))

Count(s, c) == Cardinality({i \in 1..Len(s) : s[i] = c})

\* url.getScheme: [err, scheme, rest]
RECURSIVE GetSchemeFrom(_, _)
GetSchemeFrom(s, i) ==
    IF i > Len(s) THEN [err |-> FALSE, scheme |-> <<>>, rest |-> s]
    ELSE IF IsLetter(s[i]) THEN GetSchemeFrom(s, i + 1)
    ELSE IF IsDigit(s[i]) \/ s[i] \in {"+", "-", "."}
         THEN IF i = 1 THEN [err |-> FALSE, scheme |-> <<>>, rest |-> s]
              ELSE GetSchemeFrom(s, i + 1)
    ELSE IF s[i] = ":"
         THEN IF i = 1 THEN [err |-> TRUE, scheme |-> <<>>, rest |-> <<>>]
              ELSE [err |-> FALSE, scheme |-> SubSeq(s, 1, i - 1),
                    rest |-> SubSeq(s, i + 1, Len(s))]
    ELSE [err |-> FALSE, scheme |-> <<>>, rest |-> s]

GetScheme(s) == GetSchemeFrom(s, 1)

NoURL == [err |-> TRUE, Scheme |-> <<>>, Opaque |-> <<>>, Host |-> <<>>, Path |-> <<>>,
          RawQuery |-> <<>>, ForceQuery |-> FALSE, Fragment |-> <<>>]

\* a percent sign that does not start a %XX escape makes url.Parse fail
IsHex(c) == IsDigit(c) \/ c \in {"a","b","c","d","e","f","A","B","C","D","E","F"}

BadEscape(s) ==
    \E i \in 1..Len(s) :
        s[i] = "%" /\ ~(i + 2 <= Len(s) /\ IsHex(s[i + 1]) /\ IsHex(s[i + 2]))

\* url.Parse(rawURL) for text without control bytes, in the order of the
\* library: the fragment is cut off, then the scheme, then the query, then
\* the authority, and what is left is the path

\* the authority and the path are known
ParseDone(sch, frag, force, q, hasAuth, auth, path) ==
    IF BadEscape(auth) \/ BadEscape(path) \/ BadEscape(frag) THEN NoURL
    ELSE IF hasAuth /\ Index(auth, " ") # 0 THEN NoURL
    ELSE [err |-> FALSE, Scheme |-> sch, Opaque |-> <<>>,
          Host |-> IF hasAuth THEN auth ELSE <<>>, Path |-> path,
          RawQuery |-> q, ForceQuery |-> force, Fragment |-> frag]

\* rest is what follows "//": authority up to the next '/', then the path
ParseAuthority(sch, frag, force, q, rest, i) ==
    ParseDone(sch, frag, force, q, TRUE, Before(rest, i),
              IF i = 0 THEN <<>> ELSE SubSeq(rest, i, Len(rest)))

\* r1 is the text between scheme and query
ParseHier(sch, frag, force, q, r1) ==
    IF ~HasPrefix(r1, <<"/">>) /\ sch # <<>>
    THEN [NoURL EXCEPT !.err = FALSE, !.Scheme = sch, !.Opaque = r1,
                       !.RawQuery = q, !.ForceQuery = force, !.Fragment = frag]
    ELSE IF ~HasPrefix(r1, <<"/">>) /\ Index(CutBefore(r1, "/"), ":") # 0 THEN NoURL
    ELSE IF HasPrefix(r1, <<"/", "/">>) /\ (sch # <<>> \/ ~HasPrefix(r1, <<"/", "/", "/">>))
    THEN ParseAuthority(sch, frag, force, q, SubSeq(r1, 3, Len(r1)),
                        Index(SubSeq(r1, 3, Len(r1)), "/"))
    ELSE ParseDone(sch, frag, force, q, FALSE, <<>>, r1)

\* r0 is the text after the scheme; a lone trailing '?' forces the query
ParseQuery(sch, frag, r0, force) ==
    IF force THEN ParseHier(sch, frag, TRUE, <<>>, SubSeq(r0, 1, Len(r0) - 1))
    ELSE ParseHier(sch, frag, FALSE, CutAfter(r0, "?"), CutBefore(r0, "?"))

ParseScheme(u, frag, gs) ==
    IF gs.err THEN NoURL
    ELSE IF u = <<"*">>
    THEN [NoURL EXCEPT !.err = FALSE, !.Path = <<"*">>, !.Fragment = frag]
    ELSE ParseQuery(ToLower(gs.scheme), frag, gs.rest,
                    gs.rest # <<>> /\ gs.rest[Len(gs.rest)] = "?" /\ Count(gs.rest, "?") = 1)

ParseNoFragment(u, frag) == ParseScheme(u, frag, GetScheme(u))

ParseURL(raw) == ParseNoFragment(CutBefore(raw, "#"), CutAfter(raw, "#"))

\* the escaping URL.String applies to a path or fragment: a space becomes %20
RECURSIVE Escape(_)
Escape(s) ==
    IF s = <<>> THEN <<>>
    ELSE (IF Head(s) = " " THEN <<"%", "2", "0">> ELSE <<Head(s)>>) \o Escape(Tail(s))

\* URL.String
StringTail(u) ==
    (IF u.ForceQuery \/ u.RawQuery # <<>> THEN <<"?">> \o u.RawQuery ELSE <<>>)
    \o (IF u.Fragment # <<>> THEN <<"#">> \o Escape(u.Fragment) ELSE <<>>)

\* head is scheme and authority, p the escaped path
StringPath(u, head, p) ==
    head
    \o (IF p # <<>> /\ p[1] # "/" /\ u.Host # <<>> THEN <<"/">> ELSE <<>>)
    \o (IF head = <<>> /\ Index(CutBefore(p, "/"), ":") # 0 THEN <<".", "/">> ELSE <<>>)
    \o p

StringHead(u) ==
    (IF u.Scheme # <<>> THEN u.Scheme \o <<":">> ELSE <<>>)
    \o (IF u.Opaque = <<>> /\ (u.Scheme # <<>> \/ u.Host # <<>>)
            /\ (u.Host # <<>> \/ u.Path # <<>>)
        THEN <<"/", "/">> \o u.Host ELSE <<>>)

URLString(u) ==
    (IF u.Opaque # <<>> THEN StringHead(u) \o u.Opaque
     ELSE StringPath(u, StringHead(u), Escape(u.Path)))
    \o StringTail(u)

\* strings.FieldsFunc(s, r == '&' || r == ';'): the non-empty fields
RECURSIVE Fields(_, _)
Fields(s, cur) ==
    IF s = <<>> THEN (IF cur = <<>> THEN <<>> ELSE <<cur>>)
    ELSE IF Head(s) \in {"&", ";"}
         THEN (IF cur = <<>> THEN <<>> ELSE <<cur>>) \o Fields(Tail(s), <<>>)
         ELSE Fields(Tail(s), Append(cur, Head(s)))

\* url.QueryUnescape of a key: '+' is a space; %20 %3D %26 are decoded;
\* [err, s]
RECURSIVE Unescape(_)
Unescape(s) ==
    IF s = <<>> THEN <<>>
    ELSE IF Head(s) = "+" THEN <<" ">> \o Unescape(Tail(s))
    ELSE IF Head(s) = "%" /\ Len(s) >= 3
         THEN (IF SubSeq(s, 2, 3) = <<"2", "0">> THEN <<" ">>
               ELSE IF ToLower(SubSeq(s, 2, 3)) = <<"3", "d">> THEN <<"=">>
               ELSE IF SubSeq(s, 2, 3) = <<"2", "6">> THEN <<"&">>
               ELSE SubSeq(s, 1, 3)) \o Unescape(SubSeq(s, 4, Len(s)))
    ELSE <<Head(s)>> \o Unescape(Tail(s))

QueryUnescape(k) == IF BadEscape(k) THEN k ELSE Unescape(k)

\* a key that is the whole segment
KeyIsSegment(p) == p

\* the key of one query segment: the text before '='
KeyOf(p) == IF Index(p, "=") # 0 THEN SubSeq(p, 1, Index(p, "=") - 1) ELSE p

RECURSIVE QueryKeys(_)
QueryKeys(pairs) ==
    IF pairs = <<>> THEN <<>>
    ELSE (IF KeyOf(Head(pairs)) = <<>> THEN <<>>
          ELSE <<QueryUnescape(KeyOf(Head(pairs)))>>) \o QueryKeys(Tail(pairs))

(***************************************************************************)
(* Extension filter (CompileExtRegex and its use).                         *)
(***************************************************************************)
\* strings.Split(csv, ",")
RECURSIVE Split(_, _)
Split(s, cur) ==
    IF s = <<>> THEN <<cur>>
    ELSE IF Head(s) = "," THEN <<cur>> \o Split(Tail(s), <<>>)
    ELSE Split(Tail(s), Append(cur, Head(s)))

RECURSIVE ExtParts(_)
ExtParts(items) ==
    IF items = <<>> THEN <<>>
    ELSE LET p == TrimSpace(Head(items))
             q == IF HasPrefix(p, <<".">>) THEN Tail(p) ELSE p
         IN  (IF p = <<>> THEN <<>> ELSE <<q>>) \o ExtParts(Tail(items))

\* CompileExtRegex: [re |-> the alternatives, or <<>> for a nil regex,
\*                   includeMode]
CompileExtRegex(includeCSV, excludeCSV) ==
    LET includeMode == TrimSpace(includeCSV) # <<>>
        csv == IF includeMode THEN includeCSV ELSE excludeCSV
    IN  [re |-> ExtParts(Split(csv, <<>>)), includeMode |-> includeMode]

\* (?i)\.(p1|p2|...)$ matched against path
MatchString(re, path) ==
    \E i \in 1..Len(re) :
        LET suf == <<".">> \o ToLower(re[i])
        IN  Len(path) >= Len(suf)
            /\ ToLower(SubSeq(path, Len(path) - Len(suf) + 1, Len(path))) = suf

(***************************************************************************)
(* The record processor's body for one line: the sequence of strings it    *)
(* pushes onto resultsCh, in order.                                        *)
(***************************************************************************)
\* lines 196-203: the extension filter drops the record
Dropped(re, includeMode, match) ==
    re # <<>> /\ ((includeMode /\ ~match) \/ (~includeMode /\ match))

\* lines 206-241: the query modes
Transform(line, u, mode) ==
    IF mode = "only-query"
    THEN (IF ~u.err /\ u.RawQuery # <<>> THEN <<u.RawQuery>> ELSE <<>>)
    ELSE IF mode = "only-query-keys"
    THEN (IF ~u.err /\ u.RawQuery # <<>> THEN QueryKeys(Fields(u.RawQuery, <<>>)) ELSE <<>>)
    ELSE IF mode = "no-query" /\ ~u.err
    THEN <<URLString([u EXCEPT !.RawQuery = <<>>])>>
    ELSE <<line>>

\* lines 189-193: the path the filter looks at
FilterPath(line, u) == IF ~u.err /\ u.Path # <<>> THEN u.Path ELSE line

ProcessParsed(line, u, e, mode) ==
    IF line = <<>> \/ Dropped(e.re, e.includeMode, MatchString(e.re, FilterPath(line, u)))
    THEN <<>>
    ELSE Transform(line, u, mode)

ProcessTrimmed(line, e, mode) == ProcessParsed(line, ParseURL(line), e, mode)

ProcessLine(raw, e, mode) == ProcessTrimmed(TrimSpace(raw), e, mode)

(***************************************************************************)
(* Inputs of a run.                                                        *)
(***************************************************************************)
\* the decimal text of n, 0 <= n <= 99
Itoa(n) == IF n < 10 THEN <<Digits[n + 1]>> ELSE <<Digits[(n \div 10) + 1], Digits[(n % 10) + 1]>>

\* A run: the first non-blank line of the page-count response (numStr),
\* the flags -page-workers and -workers, whether /dev/tty can be opened,
\* the output-shape flag, and the pages for which the index may answer an
\* attempt with an error or a non-2xx status or break off the body (flaky).
\* url is the pattern given with -url, includeExt and excludeExt the flags
\* -include-ext and -exclude-ext, body the raw lines of each page of the
\* index.
MixedIndex ==
    [p \in 0..(MaxPages - 1) |->
        IF p % 2 = 0
        THEN << <<" ", "a", "?", "k">>, <<" ">>, <<"b", "?", "k", "&", "j">> >>
        ELSE << <<"a", "?", "k", "\r">> >>]

\* -exclude-ext as given on the command line in most of the modelled runs
ExcludeCSV == <<"j", "s", ",", "p", "n", "g">>

ExampleCom == <<"e", "x", "a", "m", "p", "l", "e", ".", "c", "o", "m">>

Run(n, pw, w, tty, m, fl) ==
    [numStr |-> n, pageWorkers |-> pw, workers |-> w, ttyOK |-> tty, mode |-> m,
     flaky |-> fl, url |-> ExampleCom, includeExt |-> <<>>, excludeExt |-> ExcludeCSV,
     body |-> MixedIndex]

BaseRuns ==
    { Run(<<>>, 1, 1, FALSE, "default", {}),
      Run(<<"-", "1">>, 2, 1, TRUE, "default", {}),
      Run(<<"x">>, 0, 1, FALSE, "default", {0}),
      Run(<<"1">>, -1, 1, TRUE, "default", {}),
      Run(<<"1">>, 1, 0, FALSE, "default", {0}),
      Run(<<"1">>, 2, 2, TRUE, "default", {0}),
      Run(<<"1">>, 1, 1, TRUE, "only-query-keys", {0}),
      Run(<<"2">>, 1, 1, TRUE, "default", {0}),
      Run(<<"2">>, 2, 2, FALSE, "default", {}),
      Run(<<"2">>, 2, 1, TRUE, "default", {1}),
      Run(<<"2">>, 0, 2, FALSE, "only-query-keys", {0, 1}),
      Run(<<"2">>, 2, 0, FALSE, "default", {}),
      Run(<<"2">>, 1, 0, FALSE, "default", {0}),
      Run(Itoa(MaxPages), 1, 1, FALSE, "default", {}) }

\* an index whose pages each hold the one record l
OneRecord(l) == [p \in 0..(MaxPages - 1) |-> <<l>>]

\* a run over a one-page index with the record l, one fetcher, one
\* processor, no terminal
LineRun(l, m, inc, exc) ==
    [Run(<<"1">>, 1, 1, FALSE, m, {}) EXCEPT
        !.body = OneRecord(l), !.includeExt = inc, !.excludeExt = exc]

UrlQueryFragment == <<"h", "t", "t", "p", "s", ":", "/", "/", "x", ".", "e", "x", "a", "m", "p", "l", "e", "/", "p", "?", "q", "=", "1", "#", "f">>

UrlQuery == <<"h", "t", "t", "p", "s", ":", "/", "/", "x", ".", "e", "x", "a", "m", "p", "l", "e", "/", "p", "?", "q", "=", "1">>

UrlStripped == <<"h", "t", "t", "p", "s", ":", "/", "/", "x", ".", "e", "x", "a", "m", "p", "l", "e", "/", "p">>

StripQueryRuns ==
    { LineRun(UrlQueryFragment, "no-query", <<>>, ExcludeCSV),
      LineRun(UrlQuery, "no-query", <<>>, ExcludeCSV) }

\* values of -url
Patterns ==
    { ExampleCom,
      <<" ">> \o Http \o ExampleCom \o <<" ">>,
      Https \o ExampleCom,
      ExampleCom \o <<"/", "*">>,
      <<"*", ".">> \o ExampleCom,
      Http \o Http \o ExampleCom,
      Https \o Http \o ExampleCom,
      Http \o Https \o ExampleCom,
      Http \o <<" ">> \o ExampleCom,
      Http,
      <<>> }

\* runs that end after the page-count request, one for each pattern
PatternRuns == {[Run(<<>>, 1, 1, FALSE, "default", {}) EXCEPT !.url = u] : u \in Patterns}

\* records for the extension filter
FilterLines ==
    { <<"h", "t", "t", "p", ":", "/", "/", "x", "/", "a", ".", "J", "S">>,
      <<"h", "t", "t", "p", ":", "/", "/", "x", "/", "a", ".", "j", "s", "?", "b", "=", "c">>,
      <<"h", "t", "t", "p", ":", "/", "/", "x", "/", "a", "?", "b", "=", ".", "j", "s">>,
      <<"h", "t", "t", "p", ":", "/", "/", "x", "/", "a", "#", ".", "p", "n", "g">>,
      <<"h", "t", "t", "p", ":", "/", "/", "x", "/", "a", ".", "j", "s", "o", "n">>,
      <<"h", "t", "t", "p", ":", "/", "/", "x", "/", "%", "z", "z", ".", "j", "s">>,
      <<"h", "t", "t", "p", ":", "/", "/", "x", "?", "b", "=", ".", "j", "s">>,
      <<"h", "t", "t", "p", ":", "/", "/", "x", "/", "a">> }

IncludeCSV == <<"j", "s", "o", "n">>

\* runs with -exclude-ext js,png, with -include-ext json and with neither
FilterRuns ==
    {LineRun(l, "default", <<>>, ExcludeCSV) : l \in FilterLines}
    \cup {LineRun(l, "default", IncludeCSV, ExcludeCSV) : l \in FilterLines}
    \cup {LineRun(l, "default", <<>>, <<>>) : l \in FilterLines}

\* records with the query keys a, b, a
QueryKeyLines ==
    { <<"h", "t", "t", "p", ":", "/", "/", "x", "/", "p", "?", "a", "=", "1", "&", "b", "=", "2", "&", "a", "=", "3">>,
      <<"h", "t", "t", "p", ":", "/", "/", "x", "/", "p", "?", "a", "=", "1", ";", "b", "=", "2", "&", "&", "=", "3", "&", "a">> }

QueryKeyRuns == {LineRun(l, "only-query-keys", <<>>, ExcludeCSV) : l \in QueryKeyLines}

Runs == BaseRuns \cup StripQueryRuns \cup PatternRuns \cup FilterRuns \cup QueryKeyRuns


\* what one HTTP attempt can return: a 2xx response, a non-2xx response,
\* a transport error
Outcomes == {"ok", "status", "err"}

SetMax(S) == CHOOSE x \in S : \A y \in S : y <= x

\* goroutine ids: at most min(max(-page-workers, 1), pages) fetchers and
\* -workers processors are started
Fetchers == 1..SetMax({r.pageWorkers : r \in Runs})

Procs == 1..SetMax({r.workers : r \in Runs})

PageIds == 0..(MaxPages - 1)

\* the records of the index, by page and line number
Slots == {<<pg, ix>> : pg \in PageIds, ix \in 1..Len(MixedIndex[0])}

VARIABLES
    cfg,              \* the run: see Run
    mainPc,           \* position of main
    pages,            \* pages
    pageConcurrency,  \* pageConcurrency
    nextP,            \* loop variable p of the dispatch loop
    pageJobs,         \* chan int:    [cap, buf, closed]
    jobs,             \* chan string: [buf, closed]; an element is [line, pg, ix]
    resultsCh,        \* chan string: [buf, closed]
    fetchWg, workerWg, printWg,   \* WaitGroup counters
    fetch,            \* per fetcher goroutine: its position and locals
    work,             \* per processor goroutine: its position and pending pushes
    printer,          \* the printer goroutine: its position and r
    seen,             \* the printer's seen set
    pbar,             \* PBar: [made, out, status, statusColor]
    bar,              \* what the terminal shows: [shown, curr]
    pagesCompleted,   \* pagesCompleted (atomic int32)
    stdout,           \* lines written to os.Stdout, in order
    stderrLogs,       \* lines PBar.Log wrote to os.Stderr
    hist              \* history of the run, for stating the properties

vars == <<cfg, mainPc, pages, pageConcurrency, nextP, pageJobs, jobs, resultsCh,
          fetchWg, workerWg, printWg, fetch, work, printer, seen, pbar, bar,
          pagesCompleted, stdout, stderrLogs, hist>>

\* line 78: extRegex and includeMode
ext == CompileExtRegex(cfg.includeExt, cfg.excludeExt)

\* the index's records: the body of page p, one raw line per element
Body(p) == cfg.body[p]

IdleFetcher == [pc |-> "idle", page |-> -1, attempt |-> 0, ierr |-> FALSE,
                resp |-> "nil", idx |-> 0, scErr |-> FALSE,
                ok |-> FALSE, warned |-> 0, errored |-> 0]

IdleProc == [pc |-> "idle", out |-> <<>>]

Hist0 == [ enq      |-> [pg \in PageIds |-> 0],    \* times index pg was sent on pageJobs
           got      |-> [pg \in PageIds |-> 0],    \* times index pg was received
           counted  |-> [pg \in PageIds |-> 0],    \* increments of pagesCompleted for pg
           pushed   |-> [sl \in Slots |-> 0],      \* pushes of a record onto jobs
           taken    |-> [sl \in Slots |-> 0],      \* receives of a record from jobs
           badSend  |-> FALSE,                     \* a send on a closed channel
           pattern  |-> <<>>,                      \* the pattern sent to the index
           logCalls |-> 0,                         \* calls of PBar.Log
           ttyUsed  |-> FALSE ]                    \* something was written to /dev/tty

Init ==
    /\ cfg \in Runs
    /\ mainPc = "count"
    /\ pages = 0
    /\ pageConcurrency = 0
    /\ nextP = 0
    /\ pageJobs = [cap |-> 0, buf |-> <<>>, closed |-> FALSE]
    /\ jobs = [buf |-> <<>>, closed |-> FALSE]
    /\ resultsCh = [buf |-> <<>>, closed |-> FALSE]
    /\ fetchWg = 0 /\ workerWg = 0 /\ printWg = 0
    /\ fetch = [f \in Fetchers |-> IdleFetcher]
    /\ work = [w \in Procs |-> IdleProc]
    /\ printer = [pc |-> "idle", r |-> <<>>]
    /\ seen = {}
    /\ pbar = [made |-> FALSE, out |-> "nil", status |-> "", statusColor |-> ""]
    /\ bar = [shown |-> FALSE, curr |-> 0]
    /\ pagesCompleted = 0
    /\ stdout = <<>>
    /\ stderrLogs = 0
    /\ hist = Hist0

(***************************************************************************)
(* PBar.  Each operator gives the value a method leaves behind.            *)
(***************************************************************************)
\* NewPBar(total): out is /dev/tty when it can be opened, else nil
NewPBar(ttyOK) ==
    [made |-> TRUE, out |-> IF ttyOK THEN "tty" ELSE "nil", status |-> "", statusColor |-> ""]

\* Render without the test for a missing terminal
RenderAlways(pb, b, total, curr) ==
    IF total <= 0 THEN [shown |-> TRUE, curr |-> curr]
    ELSE [shown |-> TRUE, curr |-> IF curr > total THEN total ELSE curr]

\* PBar.Render(curr): the terminal line after the call
Render(pb, b, total, curr) ==
    IF pb.out = "nil" THEN b
    ELSE IF total <= 0 THEN [shown |-> TRUE, curr |-> curr]
    ELSE [shown |-> TRUE, curr |-> IF curr > total THEN total ELSE curr]

\* PBar.ClearLine: the terminal line after the call
ClearLine(pb, b) ==
    IF pb.out = "nil" THEN b ELSE [b EXCEPT !.shown = FALSE]

\* PBar.Log(msg, color): status and color are stored; without a terminal
\* one line goes to os.Stderr, with one the bar is rendered with curr = 0
LogStatus(pb, msg, color) == [pb EXCEPT !.status = msg, !.statusColor = color]

LogStderr(pb, n) == IF pb.out = "nil" THEN n + 1 ELSE n

LogBar(pb, b, total) == IF pb.out = "nil" THEN b ELSE Render(pb, b, total, 0)

\* PBar.Finish: a newline on the terminal, which is then closed
Finish(pb) == [pb EXCEPT !.out = "nil"]

\* whether a PBar method wrote to /dev/tty
TtyTouched(pb, used) == used \/ pb.out # "nil"

Yellow == "33m"

Red == "31m"

(***************************************************************************)
(* main                                                                    *)
(***************************************************************************)
\* lines 119-125: the number of fetcher goroutines
PageConcurrency(pageWorkers, n) ==
    LET c == IF pageWorkers < 1 THEN 1 ELSE pageWorkers
    IN  IF n < c THEN n ELSE c

\* a dispatch loop that runs one index too far
MoreToDispatchInclusive(p, n) == p <= n

\* line 272: the dispatch loop goes on
MoreToDispatch(p, n) == p < n

\* Wait that does not wait
WaitReturnsAtOnce(wg) == TRUE

\* sync.WaitGroup.Wait returns when the counter is zero
WaitReturns(wg) == wg = 0

\* lines 43-75 and 97-104: the page-count request and its parsing
M_count ==
    /\ mainPc = "count"
    /\ hist' = [hist EXCEPT !.pattern = normalizeURL(cfg.url)]
    /\ \/ mainPc' = "fatal" /\ UNCHANGED pages
       \/ /\ pages' = ParsePages(cfg.numStr)
          /\ mainPc' = IF pages' = 0 THEN "exit0" ELSE "newpbar"
    /\ UNCHANGED <<cfg, pageConcurrency, nextP, pageJobs, jobs, resultsCh, fetchWg,
                   workerWg, printWg, fetch, work, printer, seen, pbar, bar,
                   pagesCompleted, stdout, stderrLogs>>

\* lines 107-108: NewPBar(pages) and the first Render(0)
M_newPBar ==
    /\ mainPc = "newpbar"
    /\ pbar' = NewPBar(cfg.ttyOK)
    /\ bar' = Render(pbar', bar, pages, 0)
    /\ hist' = [hist EXCEPT !.ttyUsed = TtyTouched(pbar', @)]
    /\ mainPc' = "make"
    /\ UNCHANGED <<cfg, pages, pageConcurrency, nextP, pageJobs, jobs, resultsCh, fetchWg,
                   workerWg, printWg, fetch, work, printer, seen,
                   pagesCompleted, stdout, stderrLogs>>

\* lines 111-269: the channels are made and the goroutines started;
\* make(chan int, n) panics for n < 0
M_make ==
    /\ mainPc = "make"
    /\ IF cfg.pageWorkers < 0
       THEN /\ mainPc' = "panic"
            /\ UNCHANGED <<pageJobs, pageConcurrency, fetch, work, printer,
                           fetchWg, workerWg, printWg>>
       ELSE /\ pageJobs' = [pageJobs EXCEPT !.cap = cfg.pageWorkers]
            /\ pageConcurrency' = PageConcurrency(cfg.pageWorkers, pages)
            /\ fetch' = [f \in Fetchers |->
                           IF f <= pageConcurrency' THEN [IdleFetcher EXCEPT !.pc = "recv"]
                           ELSE IdleFetcher]
            /\ fetchWg' = IF pageConcurrency' > 0 THEN pageConcurrency' ELSE 0
            /\ work' = [w \in Procs |->
                           IF w <= cfg.workers THEN [IdleProc EXCEPT !.pc = "recv"]
                           ELSE IdleProc]
            /\ workerWg' = IF cfg.workers > 0 THEN cfg.workers ELSE 0
            /\ printer' = [printer EXCEPT !.pc = "recv"]
            /\ printWg' = 1
            /\ mainPc' = IF MoreToDispatch(0, pages) THEN "dispatch" ELSE "closePages"
    /\ UNCHANGED <<cfg, pages, nextP, jobs, resultsCh, seen, pbar, bar,
                   pagesCompleted, stdout, stderrLogs, hist>>

\* receiving page index pg: the fetcher's locals at line 132
StartPage(pg) == [IdleFetcher EXCEPT !.pc = "get", !.page = pg, !.attempt = 1]

\* lines 272-274: pageJobs <- p; with a buffer the index is queued, without
\* one it is handed to a fetcher waiting in its range loop
M_dispatch ==
    /\ mainPc = "dispatch"
    /\ MoreToDispatch(nextP, pages)
    /\ \/ /\ Len(pageJobs.buf) < pageJobs.cap
          /\ pageJobs' = [pageJobs EXCEPT !.buf = Append(@, nextP)]
          /\ hist' = [hist EXCEPT !.enq[nextP] = @ + 1,
                                  !.badSend = @ \/ pageJobs.closed]
          /\ UNCHANGED fetch
       \/ /\ pageJobs.cap = 0
          /\ \E f \in Fetchers :
                /\ fetch[f].pc = "recv"
                /\ fetch' = [fetch EXCEPT ![f] = StartPage(nextP)]
          /\ hist' = [hist EXCEPT !.enq[nextP] = @ + 1, !.got[nextP] = @ + 1,
                                  !.badSend = @ \/ pageJobs.closed]
          /\ UNCHANGED pageJobs
    /\ nextP' = nextP + 1
    /\ mainPc' = IF MoreToDispatch(nextP', pages) THEN "dispatch" ELSE "closePages"
    /\ UNCHANGED <<cfg, pages, pageConcurrency, jobs, resultsCh, fetchWg, workerWg,
                   printWg, work, printer, seen, pbar, bar, pagesCompleted, stdout,
                   stderrLogs>>

\* line 275: close(pageJobs)
M_closePages ==
    /\ mainPc = "closePages"
    /\ pageJobs' = [pageJobs EXCEPT !.closed = TRUE]
    /\ mainPc' = "waitFetch"
    /\ UNCHANGED <<cfg, pages, pageConcurrency, nextP, jobs, resultsCh, fetchWg, workerWg,
                   printWg, fetch, work, printer, seen, pbar, bar, pagesCompleted,
                   stdout, stderrLogs, hist>>

\* line 278: fetchWg.Wait()
M_waitFetch ==
    /\ mainPc = "waitFetch"
    /\ WaitReturns(fetchWg)
    /\ mainPc' = "closeJobs"
    /\ UNCHANGED <<cfg, pages, pageConcurrency, nextP, pageJobs, jobs, resultsCh, fetchWg,
                   workerWg, printWg, fetch, work, printer, seen, pbar, bar,
                   pagesCompleted, stdout, stderrLogs, hist>>

\* line 281: close(jobs)
M_closeJobs ==
    /\ mainPc = "closeJobs"
    /\ jobs' = [jobs EXCEPT !.closed = TRUE]
    /\ mainPc' = "waitWorkers"
    /\ UNCHANGED <<cfg, pages, pageConcurrency, nextP, pageJobs, resultsCh, fetchWg,
                   workerWg, printWg, fetch, work, printer, seen, pbar, bar,
                   pagesCompleted, stdout, stderrLogs, hist>>

\* line 282: workerWg.Wait()
M_waitWorkers ==
    /\ mainPc = "waitWorkers"
    /\ WaitReturns(workerWg)
    /\ mainPc' = "closeResults"
    /\ UNCHANGED <<cfg, pages, pageConcurrency, nextP, pageJobs, jobs, resultsCh, fetchWg,
                   workerWg, printWg, fetch, work, printer, seen, pbar, bar,
                   pagesCompleted, stdout, stderrLogs, hist>>

\* line 285: close(resultsCh)
M_closeResults ==
    /\ mainPc = "closeResults"
    /\ resultsCh' = [resultsCh EXCEPT !.closed = TRUE]
    /\ mainPc' = "waitPrint"
    /\ UNCHANGED <<cfg, pages, pageConcurrency, nextP, pageJobs, jobs, fetchWg,
                   workerWg, printWg, fetch, work, printer, seen, pbar, bar,
                   pagesCompleted, stdout, stderrLogs, hist>>

\* main going on to Finish without waiting for the printer
M_waitPrintSkipped ==
    /\ mainPc = "waitPrint"
    /\ mainPc' = "finish"
    /\ UNCHANGED <<cfg, pages, pageConcurrency, nextP, pageJobs, jobs, resultsCh, fetchWg,
                   workerWg, printWg, fetch, work, printer, seen, pbar, bar,
                   pagesCompleted, stdout, stderrLogs, hist>>

\* line 286: printWg.Wait()
M_waitPrint ==
    /\ mainPc = "waitPrint"
    /\ WaitReturns(printWg)
    /\ mainPc' = "finish"
    /\ UNCHANGED <<cfg, pages, pageConcurrency, nextP, pageJobs, jobs, resultsCh, fetchWg,
                   workerWg, printWg, fetch, work, printer, seen, pbar, bar,
                   pagesCompleted, stdout, stderrLogs, hist>>

\* line 289: pbar.Finish()
M_finish ==
    /\ mainPc = "finish"
    /\ pbar' = Finish(pbar)
    /\ hist' = [hist EXCEPT !.ttyUsed = TtyTouched(pbar, @)]
    /\ mainPc' = "done"
    /\ UNCHANGED <<cfg, pages, pageConcurrency, nextP, pageJobs, jobs, resultsCh, fetchWg,
                   workerWg, printWg, fetch, work, printer, seen, bar,
                   pagesCompleted, stdout, stderrLogs>>

(***************************************************************************)
(* The fetcher goroutines (lines 129-174).                                 *)
(***************************************************************************)
\* line 137: the attempt succeeded
Succeeded(o) == o = "ok"

\* line 150: the test, after the retry loop, for a page that failed
FetchFailed(ierr, resp) == ierr \/ resp = "nil"

\* a retry loop with one attempt too many
RetryOnceMore(attempt) == attempt <= maxRetries

\* line 135: the loop goes on to another attempt
Retry(attempt) == attempt + 1 <= maxRetries

\* lines 159-161: the first line at or after i that is not blank once
\* trimmed, 0 when there is none
RECURSIVE NextLine(_, _)
NextLine(body, i) ==
    IF i > Len(body) THEN 0
    ELSE IF TrimSpace(body[i]) # <<>> THEN i ELSE NextLine(body, i + 1)

\* line 131: for p := range pageJobs
F_recv(f) ==
    /\ fetch[f].pc = "recv"
    /\ \/ /\ pageJobs.buf # <<>>
          /\ fetch' = [fetch EXCEPT ![f] = StartPage(Head(pageJobs.buf))]
          /\ pageJobs' = [pageJobs EXCEPT !.buf = Tail(@)]
          /\ hist' = [hist EXCEPT !.got[Head(pageJobs.buf)] = @ + 1]
          /\ UNCHANGED fetchWg
       \/ /\ pageJobs.buf = <<>>
          /\ pageJobs.closed
          /\ fetch' = [fetch EXCEPT ![f].pc = "done"]
          /\ fetchWg' = fetchWg - 1
          /\ UNCHANGED <<pageJobs, hist>>
    /\ UNCHANGED <<cfg, mainPc, pages, pageConcurrency, nextP, jobs, resultsCh, workerWg,
                   printWg, work, printer, seen, pbar, bar, pagesCompleted, stdout,
                   stderrLogs>>

\* lines 136-142: one client.Get; a response that is not 2xx is closed
F_get(f) ==
    /\ fetch[f].pc = "get"
    /\ \E o \in Outcomes :
          /\ Succeeded(o) \/ fetch[f].page \in cfg.flaky
          /\ fetch' = [fetch EXCEPT
                ![f].ierr = (o = "err"),
                ![f].resp = IF o = "ok" THEN "open" ELSE IF o = "status" THEN "closed" ELSE "nil",
                ![f].idx = 1,
                ![f].ok = Succeeded(o),
                ![f].pc = IF Succeeded(o) THEN "scan" ELSE "log"]
    /\ UNCHANGED <<cfg, mainPc, pages, pageConcurrency, nextP, pageJobs, jobs, resultsCh,
                   fetchWg, workerWg, printWg, work, printer, seen, pbar, bar,
                   pagesCompleted, stdout, stderrLogs, hist>>

\* lines 144-145: pbar.Log(retry message, yellow)
F_log(f) ==
    /\ fetch[f].pc = "log"
    /\ pbar' = LogStatus(pbar, "retrying", Yellow)
    /\ stderrLogs' = LogStderr(pbar, stderrLogs)
    /\ bar' = LogBar(pbar, bar, pages)
    /\ hist' = [hist EXCEPT !.logCalls = @ + 1, !.ttyUsed = TtyTouched(pbar, @)]
    /\ fetch' = [fetch EXCEPT ![f].pc = "render", ![f].warned = @ + 1]
    /\ UNCHANGED <<cfg, mainPc, pages, pageConcurrency, nextP, pageJobs, jobs, resultsCh,
                   fetchWg, workerWg, printWg, work, printer, seen,
                   pagesCompleted, stdout>>

\* lines 146-149: pbar.Render(pagesCompleted), the backoff sleep, and the
\* loop's step; after the last attempt the test of line 150
F_render(f) ==
    /\ fetch[f].pc = "render"
    /\ bar' = Render(pbar, bar, pages, pagesCompleted)
    /\ hist' = [hist EXCEPT !.ttyUsed = TtyTouched(pbar, @)]
    /\ fetch' = [fetch EXCEPT
          ![f].attempt = @ + 1,
          ![f].pc = IF Retry(fetch[f].attempt) THEN "get"
                    ELSE IF FetchFailed(fetch[f].ierr, fetch[f].resp) THEN "errlog"
                    ELSE "scan"]
    /\ UNCHANGED <<cfg, mainPc, pages, pageConcurrency, nextP, pageJobs, jobs, resultsCh,
                   fetchWg, workerWg, printWg, work, printer, seen, pbar,
                   pagesCompleted, stdout, stderrLogs>>

\* lines 151-152: pbar.Log(error message, red)
F_errlog(f) ==
    /\ fetch[f].pc = "errlog"
    /\ pbar' = LogStatus(pbar, "error", Red)
    /\ stderrLogs' = LogStderr(pbar, stderrLogs)
    /\ bar' = LogBar(pbar, bar, pages)
    /\ hist' = [hist EXCEPT !.logCalls = @ + 1, !.ttyUsed = TtyTouched(pbar, @)]
    /\ fetch' = [fetch EXCEPT ![f].pc = "inc", ![f].errored = @ + 1]
    /\ UNCHANGED <<cfg, mainPc, pages, pageConcurrency, nextP, pageJobs, jobs, resultsCh,
                   fetchWg, workerWg, printWg, work, printer, seen,
                   pagesCompleted, stdout>>

\* lines 158-165 and 170: the scan of the body.  An open body yields its
\* next non-blank line, which is pushed onto jobs (the push waits for
\* room), or ends, or fails to read; a body closed at line 141 yields no
\* line and ends with or without a read error
F_scan(f) ==
    /\ fetch[f].pc = "scan"
    /\ LET pg == fetch[f].page
           n  == NextLine(Body(pg), fetch[f].idx)
       IN  \/ /\ fetch[f].resp = "open"
              /\ n # 0
              /\ Len(jobs.buf) < QueueCap
              /\ jobs' = [jobs EXCEPT !.buf = Append(@, [line |-> TrimSpace(Body(pg)[n]),
                                                         pg |-> pg, ix |-> n])]
              /\ fetch' = [fetch EXCEPT ![f].idx = n + 1]
              /\ hist' = [hist EXCEPT !.pushed[<<pg, n>>] = @ + 1,
                                      !.badSend = @ \/ jobs.closed]
           \/ /\ fetch[f].resp = "open"
              /\ n = 0
              /\ fetch' = [fetch EXCEPT ![f].pc = "inc", ![f].resp = "closed"]
              /\ UNCHANGED <<jobs, hist>>
           \/ /\ fetch[f].resp = "open"
              /\ pg \in cfg.flaky
              /\ fetch' = [fetch EXCEPT ![f].pc = "scanlog", ![f].scErr = TRUE]
              /\ UNCHANGED <<jobs, hist>>
           \/ /\ fetch[f].resp = "closed"
              /\ \E e \in BOOLEAN :
                    fetch' = [fetch EXCEPT ![f].pc = IF e THEN "scanlog" ELSE "inc",
                                           ![f].scErr = e]
              /\ UNCHANGED <<jobs, hist>>
    /\ UNCHANGED <<cfg, mainPc, pages, pageConcurrency, nextP, pageJobs, resultsCh,
                   fetchWg, workerWg, printWg, work, printer, seen, pbar, bar,
                   pagesCompleted, stdout, stderrLogs>>

\* lines 166-167: pbar.Log(read warning, yellow)
F_scanlog(f) ==
    /\ fetch[f].pc = "scanlog"
    /\ pbar' = LogStatus(pbar, "read error", Yellow)
    /\ stderrLogs' = LogStderr(pbar, stderrLogs)
    /\ bar' = LogBar(pbar, bar, pages)
    /\ hist' = [hist EXCEPT !.logCalls = @ + 1, !.ttyUsed = TtyTouched(pbar, @)]
    /\ fetch' = [fetch EXCEPT ![f].pc = "scanrender", ![f].warned = @ + 1]
    /\ UNCHANGED <<cfg, mainPc, pages, pageConcurrency, nextP, pageJobs, jobs, resultsCh,
                   fetchWg, workerWg, printWg, work, printer, seen,
                   pagesCompleted, stdout>>

\* lines 168-170: pbar.Render(pagesCompleted); respP.Body.Close()
F_scanrender(f) ==
    /\ fetch[f].pc = "scanrender"
    /\ bar' = Render(pbar, bar, pages, pagesCompleted)
    /\ hist' = [hist EXCEPT !.ttyUsed = TtyTouched(pbar, @)]
    /\ fetch' = [fetch EXCEPT ![f].pc = "inc", ![f].resp = "closed"]
    /\ UNCHANGED <<cfg, mainPc, pages, pageConcurrency, nextP, pageJobs, jobs, resultsCh,
                   fetchWg, workerWg, printWg, work, printer, seen, pbar,
                   pagesCompleted, stdout, stderrLogs>>

\* lines 153 and 171: atomic.AddInt32(&pagesCompleted, 1)
F_inc(f) ==
    /\ fetch[f].pc = "inc"
    /\ pagesCompleted' = pagesCompleted + 1
    /\ hist' = [hist EXCEPT !.counted[fetch[f].page] = @ + 1]
    /\ fetch' = [fetch EXCEPT ![f].pc = "rendered"]
    /\ UNCHANGED <<cfg, mainPc, pages, pageConcurrency, nextP, pageJobs, jobs, resultsCh,
                   fetchWg, workerWg, printWg, work, printer, seen, pbar, bar,
                   stdout, stderrLogs>>

\* lines 154 and 172: pbar.Render(pagesCompleted), then the next page
F_rendered(f) ==
    /\ fetch[f].pc = "rendered"
    /\ bar' = Render(pbar, bar, pages, pagesCompleted)
    /\ hist' = [hist EXCEPT !.ttyUsed = TtyTouched(pbar, @)]
    /\ fetch' = [fetch EXCEPT ![f] = [IdleFetcher EXCEPT !.pc = "recv"]]
    /\ UNCHANGED <<cfg, mainPc, pages, pageConcurrency, nextP, pageJobs, jobs, resultsCh,
                   fetchWg, workerWg, printWg, work, printer, seen, pbar,
                   pagesCompleted, stdout, stderrLogs>>

(***************************************************************************)
(* The processing workers (lines 181-243).                                 *)
(***************************************************************************)
\* the processor's state after taking a line: o is what it will push
Taken(o) == [pc |-> IF o = <<>> THEN "recv" ELSE "send", out |-> o]

\* line 183: for line := range jobs; the strings the line gives rise to
\* are computed at once and pushed one by one
W_recv(w) ==
    /\ work[w].pc = "recv"
    /\ \/ /\ jobs.buf # <<>>
          /\ work' = [work EXCEPT ![w] = Taken(ProcessLine(Head(jobs.buf).line, ext, cfg.mode))]
          /\ hist' = [hist EXCEPT !.taken[<<Head(jobs.buf).pg, Head(jobs.buf).ix>>] = @ + 1]
          /\ jobs' = [jobs EXCEPT !.buf = Tail(@)]
          /\ UNCHANGED workerWg
       \/ /\ jobs.buf = <<>>
          /\ jobs.closed
          /\ work' = [work EXCEPT ![w].pc = "done"]
          /\ workerWg' = workerWg - 1
          /\ UNCHANGED <<jobs, hist>>
    /\ UNCHANGED <<cfg, mainPc, pages, pageConcurrency, nextP, pageJobs, resultsCh,
                   fetchWg, printWg, fetch, printer, seen, pbar, bar, pagesCompleted,
                   stdout, stderrLogs>>

\* lines 208, 229, 236, 241: resultsCh <- ...
W_send(w) ==
    /\ work[w].pc = "send"
    /\ Len(resultsCh.buf) < QueueCap
    /\ resultsCh' = [resultsCh EXCEPT !.buf = Append(@, Head(work[w].out))]
    /\ work' = [work EXCEPT ![w] = [pc |-> IF Tail(work[w].out) = <<>> THEN "recv" ELSE "send",
                                    out |-> Tail(work[w].out)]]
    /\ hist' = [hist EXCEPT !.badSend = @ \/ resultsCh.closed]
    /\ UNCHANGED <<cfg, mainPc, pages, pageConcurrency, nextP, pageJobs, jobs,
                   fetchWg, workerWg, printWg, fetch, printer, seen, pbar, bar,
                   pagesCompleted, stdout, stderrLogs>>

(***************************************************************************)
(* The printer goroutine (lines 249-269).                                  *)
(***************************************************************************)
\* a membership test that never finds anything
SeenNever(set, r) == FALSE

\* line 254: r has been written before
Seen(set, r) == r \in set

\* lines 253-257: for r := range resultsCh; a string seen before is
\* skipped, a new one is put into seen
P_recv ==
    /\ printer.pc = "recv"
    /\ \/ /\ resultsCh.buf # <<>>
          /\ LET r == Head(resultsCh.buf)
             IN  IF Seen(seen, r)
                 THEN UNCHANGED <<printer, seen>>
                 ELSE /\ seen' = seen \cup {r}
                      /\ printer' = [pc |-> "clear", r |-> r]
          /\ resultsCh' = [resultsCh EXCEPT !.buf = Tail(@)]
          /\ UNCHANGED printWg
       \/ /\ resultsCh.buf = <<>>
          /\ resultsCh.closed
          /\ printer' = [pc |-> "done", r |-> <<>>]
          /\ printWg' = printWg - 1
          /\ UNCHANGED <<resultsCh, seen>>
    /\ UNCHANGED <<cfg, mainPc, pages, pageConcurrency, nextP, pageJobs, jobs,
                   fetchWg, workerWg, fetch, work, pbar, bar, pagesCompleted,
                   stdout, stderrLogs, hist>>

\* line 259: pbar.ClearLine()
P_clear ==
    /\ printer.pc = "clear"
    /\ bar' = ClearLine(pbar, bar)
    /\ hist' = [hist EXCEPT !.ttyUsed = TtyTouched(pbar, @)]
    /\ printer' = [printer EXCEPT !.pc = "write"]
    /\ UNCHANGED <<cfg, mainPc, pages, pageConcurrency, nextP, pageJobs, jobs, resultsCh,
                   fetchWg, workerWg, printWg, fetch, work, seen, pbar, pagesCompleted,
                   stdout, stderrLogs>>

\* lines 260-261: fmt.Fprintln(bufw, r); bufw.Flush()
P_write ==
    /\ printer.pc = "write"
    /\ stdout' = Append(stdout, printer.r)
    /\ printer' = [printer EXCEPT !.pc = "render"]
    /\ UNCHANGED <<cfg, mainPc, pages, pageConcurrency, nextP, pageJobs, jobs, resultsCh,
                   fetchWg, workerWg, printWg, fetch, work, seen, pbar, bar,
                   pagesCompleted, stderrLogs, hist>>

\* line 262: pbar.Render(pagesCompleted)
P_render ==
    /\ printer.pc = "render"
    /\ bar' = Render(pbar, bar, pages, pagesCompleted)
    /\ hist' = [hist EXCEPT !.ttyUsed = TtyTouched(pbar, @)]
    /\ printer' = [pc |-> "recv", r |-> <<>>]
    /\ UNCHANGED <<cfg, mainPc, pages, pageConcurrency, nextP, pageJobs, jobs, resultsCh,
                   fetchWg, workerWg, printWg, fetch, work, seen, pbar, pagesCompleted,
                   stdout, stderrLogs>>

Next ==
    \/ M_count \/ M_newPBar \/ M_make \/ M_dispatch \/ M_closePages \/ M_waitFetch
    \/ M_closeJobs \/ M_waitWorkers \/ M_closeResults \/ M_waitPrint \/ M_finish
    \/ \E f \in Fetchers :
          \/ F_recv(f) \/ F_get(f) \/ F_log(f) \/ F_render(f) \/ F_errlog(f)
          \/ F_scan(f) \/ F_scanlog(f) \/ F_scanrender(f) \/ F_inc(f) \/ F_rendered(f)
    \/ \E w \in Procs : W_recv(w) \/ W_send(w)
    \/ P_recv \/ P_clear \/ P_write \/ P_render

Spec == Init /\ [][Next]_vars

(***************************************************************************)
(* Properties.                                                             *)
(***************************************************************************)
Range(q) == {q[i] : i \in 1..Len(q)}

\* the line numbers of page pg that hold a record
Records(pg) == {n \in 1..Len(Body(pg)) : TrimSpace(Body(pg)[n]) # <<>>}

\* a fetcher that is working on a page
Busy(f) == fetch[f].pc \notin {"idle", "recv", "done"}

AllFetchersReturned == \A f \in Fetchers : fetch[f].pc \in {"idle", "done"}

AllProcsReturned == \A w \in Procs : work[w].pc \in {"idle", "done"}

\* main is past the page count and the early return
PipelineStarted == mainPc \notin {"count", "exit0", "fatal", "newpbar"}

\* C1: once a non-zero page count is known the run does not stall: in
\* every state the run has ended (main returned, or the process crashed
\* in make) or some goroutine can take a step.
C1_NoStall ==
    PipelineStarted => (mainPc \in {"done", "panic"} \/ ENABLED Next)

\* C2: a queue is closed only after its producers are done (pageJobs
\* after every index was sent, jobs after every fetcher returned,
\* resultsCh after every processor returned), nothing is sent on a closed
\* queue, and no consumer leaves its receive loop while a producer of its
\* queue can still send.
C2_CloseAfterProducers ==
    /\ ~hist.badSend
    /\ pageJobs.closed =>
          /\ mainPc # "dispatch"
          /\ \A pg \in PageIds : pg < pages => hist.enq[pg] = 1
    /\ jobs.closed => AllFetchersReturned
    /\ resultsCh.closed => AllProcsReturned
    /\ (\E f \in Fetchers : fetch[f].pc = "done") => pageJobs.closed
    /\ (\E w \in Procs : work[w].pc = "done") => jobs.closed /\ AllFetchersReturned
    /\ printer.pc = "done" => resultsCh.closed /\ AllProcsReturned

\* a run with two fetchers and two processors ended, all queues closed
C2_Witness ==
    /\ mainPc = "done"
    /\ pageConcurrency = 2
    /\ cfg.workers = 2
    /\ pageJobs.closed /\ jobs.closed /\ resultsCh.closed
    /\ Len(stdout) = 2

\* C3: the output holds no line twice; a line is written only when it was
\* not in seen, and it is in seen before the next result is taken.
C3_NoDuplicateLines ==
    /\ \A i, j \in 1..Len(stdout) : i # j => stdout[i] # stdout[j]
    /\ Range(stdout) \subseteq seen
    /\ printer.pc \in {"clear", "write"} =>
          printer.r \in seen /\ printer.r \notin Range(stdout)
    /\ printer.pc \in {"recv", "done"} => seen = Range(stdout)

\* both copies of the record the two pages share were processed, and the
\* output holds the two distinct lines
C3_Witness ==
    /\ mainPc = "done"
    /\ hist.taken[<<0, 1>>] = 1
    /\ hist.taken[<<1, 1>>] = 1
    /\ cfg.mode = "default"
    /\ Len(stdout) = 2

\* C4: once the pipeline has started, pagesCompleted never decreases,
\* never exceeds the page count, is incremented once per page, and equals
\* the page count when the run completes.
C4_CompletedPages ==
    [][ /\ pagesCompleted' >= pagesCompleted
        /\ PipelineStarted' =>
              /\ pagesCompleted' <= pages'
              /\ \A pg \in PageIds : hist'.counted[pg] <= 1
              /\ mainPc' = "done" => pagesCompleted' = pages' ]_vars

\* C5: every record of a page that was fetched and read without error is
\* pushed onto jobs once and received by a processor once before the run
\* ends, and with the default transform every such record the filter
\* keeps is in the output.
C5_NoLineLost ==
    /\ \A sl \in Slots : hist.pushed[sl] <= 1 /\ hist.taken[sl] <= hist.pushed[sl]
    /\ \A f \in Fetchers :
          (fetch[f].pc \in {"inc", "rendered"} /\ fetch[f].ok /\ ~fetch[f].scErr) =>
             \A n \in Records(fetch[f].page) : hist.pushed[<<fetch[f].page, n>>] = 1
    /\ mainPc = "done" =>
          \A sl \in Slots :
             /\ hist.taken[sl] = hist.pushed[sl]
             /\ (hist.pushed[sl] = 1 /\ cfg.mode = "default"
                 /\ ProcessLine(Body(sl[1])[sl[2]], ext, "default") # <<>>) =>
                    TrimSpace(Body(sl[1])[sl[2]]) \in Range(stdout)

\* C6: a page is attempted at most maxRetries times and not again after a
\* 2xx response; a page whose first two attempts failed and whose third
\* succeeded has each record pushed once and is counted once.
C6_RetryThenOnce ==
    /\ \A f \in Fetchers :
          /\ fetch[f].pc = "get" => fetch[f].attempt \in 1..maxRetries
          /\ fetch[f].pc \in {"get", "log", "render", "errlog"} => ~fetch[f].ok
          /\ (fetch[f].pc = "rendered" /\ fetch[f].ok /\ fetch[f].warned = 2
              /\ ~fetch[f].scErr) =>
                /\ \A n \in Records(fetch[f].page) : hist.pushed[<<fetch[f].page, n>>] = 1
                /\ hist.counted[fetch[f].page] = 1
    /\ \A sl \in Slots : hist.pushed[sl] <= 1
    /\ \A pg \in PageIds : hist.counted[pg] <= 1

\* a page was fetched at the third attempt, scanned and counted
C6_Witness ==
    \E f \in Fetchers :
        /\ fetch[f].pc = "rendered"
        /\ fetch[f].ok
        /\ fetch[f].attempt = 3
        /\ fetch[f].warned = 2
        /\ ~fetch[f].scErr

\* C7: a page whose attempts all failed was reported with a warning per
\* failed attempt and then with an error, and no record of it was pushed.
C7_ExhaustedPage ==
    \A f \in Fetchers :
        (fetch[f].pc \in {"inc", "rendered"} /\ ~fetch[f].ok) =>
            /\ fetch[f].warned >= maxRetries
            /\ fetch[f].errored = 1
            /\ \A n \in Records(fetch[f].page) : hist.pushed[<<fetch[f].page, n>>] = 0

\* C8: every index in [0, pages) is sent once and received once, by one
\* fetcher; no other index is fetched.
C8_EachPageOnce ==
    /\ \A pg \in PageIds :
          /\ hist.enq[pg] <= 1
          /\ hist.got[pg] <= hist.enq[pg]
          /\ ~(pg < pages) => hist.enq[pg] = 0
    /\ \A pg \in Range(pageJobs.buf) : 0 <= pg /\ pg < pages
    /\ \A f \in Fetchers : Busy(f) => 0 <= fetch[f].page /\ fetch[f].page < pages
    /\ \A f, g \in Fetchers : (f # g /\ Busy(f) /\ Busy(g)) => fetch[f].page # fetch[g].page
    /\ mainPc = "done" =>
          \A pg \in PageIds : pg < pages => hist.enq[pg] = 1 /\ hist.got[pg] = 1

\* two pages were dispatched to two fetchers and the run ended
C8_Witness ==
    /\ mainPc = "done"
    /\ pages = 2
    /\ pageConcurrency = 2
    /\ hist.got[0] = 1
    /\ hist.got[1] = 1

\* C9: with a terminal, between the printer's ClearLine and its write of
\* the data line nothing renders the progress line: the line is not on
\* display when the data line is written.
C9_NoRenderBeforeWrite ==
    (cfg.ttyOK /\ printer.pc = "write") => ~bar.shown

\* C10: PBar writes nothing to standard output, whose lines are the
\* printer's; without a terminal Render, ClearLine and Finish write
\* nothing and every Log call writes one line to the error stream.
C10_ReporterStreams ==
    /\ Range(stdout) \subseteq seen
    /\ Len(stdout) = Cardinality(seen) - (IF printer.pc \in {"clear", "write"} THEN 1 ELSE 0)
    /\ ~cfg.ttyOK =>
          /\ stderrLogs = hist.logCalls
          /\ ~hist.ttyUsed
          /\ bar = [shown |-> FALSE, curr |-> 0]
    /\ cfg.ttyOK => stderrLogs = 0

\* a run without a terminal ended after Log calls and data lines
C10_Witness ==
    /\ ~cfg.ttyOK
    /\ mainPc = "done"
    /\ hist.logCalls >= 2
    /\ stderrLogs >= 2
    /\ Len(stdout) >= 1

\* C11: when the page-count response holds no non-blank line and no fatal
\* error ends the run before, main returns at the early return (exit code
\* zero) with nothing written to the output, no PBar made, no goroutine
\* started and no page requested.
C11_EmptyCountEndsRun ==
    /\ (cfg.numStr = <<>> /\ mainPc # "count") => mainPc \in {"exit0", "fatal"}
    /\ mainPc = "exit0" =>
          /\ pages = 0
          /\ ~pbar.made /\ ~bar.shown /\ ~hist.ttyUsed
          /\ \A f \in Fetchers : fetch[f] = IdleFetcher
          /\ \A w \in Procs : work[w] = IdleProc
          /\ printer.pc = "idle"
          /\ fetchWg = 0 /\ workerWg = 0 /\ printWg = 0
          /\ \A pg \in PageIds : hist.enq[pg] = 0 /\ hist.got[pg] = 0
          /\ stdout = <<>> /\ stderrLogs = 0 /\ hist.logCalls = 0

\* main returned early on a response without a non-blank line
C11_Witness ==
    /\ cfg.numStr = <<>>
    /\ mainPc = "exit0"
    /\ pages = 0

\* the fetcher goroutines that were started
StartedFetchers == {f \in Fetchers : fetch[f].pc # "idle"}

\* v clamped to [lo, hi]
Clamp(v, lo, hi) == IF v < lo THEN lo ELSE IF v > hi THEN hi ELSE v

\* C12: once main is past the start of the fetchers, the number of
\* fetcher goroutines started is -page-workers clamped to [1, pages], and
\* at least one is started.
C12_FetcherCount ==
    mainPc \notin {"count", "exit0", "fatal", "newpbar", "make"} =>
        /\ Cardinality(StartedFetchers) = Clamp(cfg.pageWorkers, 1, pages)
        /\ Cardinality(StartedFetchers) >= 1

\* a run over a one-page index has ended
OnePageDone == mainPc = "done" /\ pages = 1

\* C13: in strip-query mode the record https://x.example/p?q=1#f, like
\* https://x.example/p?q=1, is emitted as https://x.example/p.
C13_StripQuery ==
    (OnePageDone /\ cfg.mode = "no-query"
     /\ cfg.body[0] \in {<<UrlQueryFragment>>, <<UrlQuery>>}) =>
        stdout = <<UrlStripped>>

\* C14: the pattern sent to the index ends in '*' and does not begin with
\* http:// or https://, whatever was given with -url.
C14_NormalizedPattern ==
    mainPc # "count" =>
        /\ hist.pattern # <<>>
        /\ hist.pattern[Len(hist.pattern)] = "*"
        /\ ~HasPrefix(hist.pattern, Http)
        /\ ~HasPrefix(hist.pattern, Https)

\* the text the filter is to look at: the parsed path, or the raw text
\* when the record does not parse
PathOrRaw(line, u) == IF u.err THEN line ELSE u.Path

\* whether a record is to pass the filter e
Passes(line, u, e) ==
    \/ e.re = <<>>
    \/ e.includeMode /\ MatchString(e.re, PathOrRaw(line, u))
    \/ ~e.includeMode /\ ~MatchString(e.re, PathOrRaw(line, u))

ExpectedOutput(line, e) == IF Passes(line, ParseURL(line), e) THEN <<line>> ELSE <<>>

\* C15: with the default transform a record is written iff it passes the
\* filter, which looks at the parsed path of a record that parses and at
\* the raw text of one that does not: exclude drops a path ending, in any
\* case, in '.' and a listed extension, include keeps only such a path,
\* and without a matcher every record passes.
C15_FilterOnPath ==
    (OnePageDone /\ cfg.mode = "default" /\ Len(cfg.body[0]) = 1) =>
        stdout = ExpectedOutput(TrimSpace(cfg.body[0][1]), ext)

\* q without the later occurrences of its elements
RECURSIVE Dedup(_)
Dedup(q) ==
    IF q = <<>> THEN <<>>
    ELSE IF q[Len(q)] \in Range(SubSeq(q, 1, Len(q) - 1))
         THEN Dedup(SubSeq(q, 1, Len(q) - 1))
         ELSE Append(Dedup(SubSeq(q, 1, Len(q) - 1)), q[Len(q)])

\* the keys of the query a=1&b=2&a=3
KeysABA == << <<"a">>, <<"b">>, <<"a">> >>

\* k is the sequence of keys of the record, i of them have been pushed
\* onto resultsCh and j of them received by the printer
KeysInOrder(k, i, j) ==
    /\ 0 <= j /\ j <= i /\ i <= Len(k)
    /\ work[1].pc = "send" => work[1].out = SubSeq(k, i + 1, Len(k))
    /\ resultsCh.buf = SubSeq(k, j + 1, i)
    /\ seen = Range(SubSeq(k, 1, j))
    /\ stdout = Dedup(SubSeq(k, 1, IF printer.pc \in {"clear", "write"} THEN j - 1 ELSE j))
    /\ printer.pc \in {"clear", "write"} => printer.r = k[j]

\* the number of keys pushed so far by processor 1
KeysPushed(k) ==
    IF hist.taken[<<0, 1>>] = 0 THEN 0
    ELSE IF work[1].pc = "send" THEN Len(k) - Len(work[1].out) ELSE Len(k)

\* C16: in query-keys-only mode a record with the query a=1&b=2&a=3 (or
\* a=1;b=2&&=3&a) makes the processor push a, b, a in that order, and
\* the printer writes a, b: first arrival decides the order, a repeated
\* key is written once.
C16_QueryKeys ==
    (cfg \in QueryKeyRuns /\ PipelineStarted /\ mainPc # "make") =>
        /\ KeysInOrder(KeysABA, KeysPushed(KeysABA), KeysPushed(KeysABA) - Len(resultsCh.buf))
        /\ mainPc = "done" => stdout = << <<"a">>, <<"b">> >>

\* the run with the query a=1&b=2&a=3 ended after all three keys were pushed
C16_Witness ==
    /\ cfg.body[0] = << <<"h", "t", "t", "p", ":", "/", "/", "x", "/", "p", "?", "a", "=", "1", "&", "b", "=", "2", "&", "a", "=", "3">> >>
    /\ cfg.mode = "only-query-keys"
    /\ mainPc = "done"
    /\ hist.taken[<<0, 1>>] = 1
    /\ stdout = << <<"a">>, <<"b">> >>

\* C17: making the queues does not fail, pageJobs has the capacity of the
\* fetcher concurrency in use, -page-workers clamped to [1, pages], and
\* never holds more indices than that.
C17_PageQueueCapacity ==
    /\ mainPc # "panic"
    /\ mainPc \notin {"count", "exit0", "fatal", "newpbar", "make"} =>
          /\ pageJobs.cap = Clamp(cfg.pageWorkers, 1, pages)
          /\ pageJobs.cap = pageConcurrency
          /\ Len(pageJobs.buf) <= pageConcurrency

\* C18: with a terminal, the completed-page count on the progress line
\* never decreases from one render to the next.
C18_DisplayedCountMonotone ==
    [][cfg.ttyOK => bar'.curr >= bar.curr]_vars

\* C19: when a page is counted after its attempts all failed or after its
\* body broke off during the scan, no record of it was pushed onto jobs
\* (so none reaches the output), and it is counted once.
C19_FailedPageAbsent ==
    \A f \in Fetchers :
        (fetch[f].pc = "rendered" /\ (~fetch[f].ok \/ fetch[f].scErr)) =>
            /\ \A n \in Records(fetch[f].page) : hist.pushed[<<fetch[f].page, n>>] = 0
            /\ hist.counted[fetch[f].page] = 1

\* the mode NewPBar selected
ModeAtConstruction == IF cfg.ttyOK THEN "tty" ELSE "nil"

\* C20: Finish is called once and last: when it is called every fetcher
\* and processor has returned and the printer has drained resultsCh and
\* returned, nothing runs after it, and until it is called the PBar keeps
\* the mode it was made with.
C20_FinishLast ==
    /\ mainPc \in {"finish", "done"} =>
          /\ AllFetchersReturned /\ AllProcsReturned
          /\ printer.pc = "done"
          /\ resultsCh.closed /\ resultsCh.buf = <<>>
          /\ fetchWg = 0 /\ workerWg = 0 /\ printWg = 0
    /\ mainPc = "done" => pbar.out = "nil" /\ ~ENABLED Next
    /\ (pbar.made /\ mainPc # "done") => pbar.out = ModeAtConstruction

\* a run with a terminal ended: Finish released it after pages were
\* rendered and lines written
C20_Witness ==
    /\ mainPc = "done"
    /\ cfg.ttyOK
    /\ pbar.out = "nil"
    /\ hist.ttyUsed
    /\ pagesCompleted = 2
    /\ Len(stdout) >= 1

====
